---- MODULE Spec2Model ----
(***************************************************************************)
(* RSU sales tax optimizer (src/app.py, class RSUOptimizer).               *)
(*                                                                         *)
(* Money is modelled exactly, in whole NIS.  Tax rates are kept in percent *)
(* (0.10 -> 10), so every tax amount and the net proceeds are in 1/100 NIS *)
(* (2450.00 NIS is 245000).                                                *)
(***************************************************************************)
EXTENDS Integers, Sequences, FiniteSets, TLC

VARIABLES
    \* --- calc_progressive_tax, called on its own -------------------------
    tax_pc,                 \* "call" before the call, "done" after it
    tax_args,               \* [base, x, y]
    tax_out,                \* results of the calls made on tax_args
    \* --- get_tax_components, called on its own ---------------------------
    comp_pc,                \* "call" | "done"
    comp_args,              \* [grant, quotes, sale_date]
    comp_out,               \* <<>> for None, <<components>> otherwise
    \* --- optimize_rsu_sales -----------------------------------------------
    pc,                     \* position in optimize_rsu_sales
    rsu_data,               \* the rows of the DataFrame
    market,                 \* market[i]: the quotes the providers return for row i
    current_income,
    target_bracket_limit,
    income_room,
    grants_to_process,
    s102_gains,
    cap_losses,
    recommendations,
    running_income,
    total_cap_gain_to_offset,
    running_loss_sold,
    final_results,
    running_income_for_tax,
    idx,                    \* index of the loop the current position is in
    phase1_log,             \* history: one entry per phase-1 selection
    phase1_visits,          \* history: one entry per pass of the phase-1 loop
    phase2_visits,          \* history: one entry per pass of the phase-2 loop
    summary,                \* main(): <<>> or <<the financial summary>>
    run_no,                 \* 1 in the first call on the inputs, 2 in a second
    first_run               \* <<>> or <<what the first call returned>>

taxVars  == <<tax_pc, tax_args, tax_out>>
compVars == <<comp_pc, comp_args, comp_out>>
optVars  == <<pc, rsu_data, market, current_income, target_bracket_limit,
              income_room, grants_to_process, s102_gains, cap_losses,
              recommendations, running_income, total_cap_gain_to_offset,
              running_loss_sold, final_results, running_income_for_tax, idx,
              phase1_log, phase1_visits, phase2_visits, summary, run_no,
              first_run>>
vars     == <<tax_pc, tax_args, tax_out, comp_pc, comp_args, comp_out,
              pc, rsu_data, market, current_income, target_bracket_limit,
              income_room, grants_to_process, s102_gains, cap_losses,
              recommendations, running_income, total_cap_gain_to_offset,
              running_loss_sold, final_results, running_income_for_tax, idx,
              phase1_log, phase1_visits, phase2_visits, summary, run_no,
              first_run>>

Min(a, b) == IF a <= b THEN a ELSE b

Max(a, b) == IF a >= b THEN a ELSE b

Abs(a) == IF a < 0 THEN 0 - a ELSE a

\* float('inf') of the last bracket: above every income of the model.
INF == 2000000000

ISRAELI_TAX_BRACKETS_2025 ==
    << <<84120, 10>>, <<120720, 14>>, <<193800, 20>>, <<269280, 31>>,
       <<560280, 35>>, <<721560, 47>>, <<INF, 50>> >>

CAPITAL_GAINS_RATE == 25

(***************************************************************************)
(* calc_progressive_tax                                                    *)
(***************************************************************************)

\* Plausible slip: the income is not reduced by previous_limit, so the
\* part of it below the bracket is taxed again at the bracket's rate.
RECURSIVE tax_on_income_from_whole_income(_, _, _, _)
tax_on_income_from_whole_income(income, brackets, i, previous_limit) ==
    IF i > Len(brackets) THEN 0
    ELSE IF income > previous_limit
         THEN Min(income, brackets[i][1] - previous_limit) * brackets[i][2]
              + tax_on_income_from_whole_income(income, brackets, i + 1,
                                                brackets[i][1])
         ELSE 0

\* The for loop of tax_on_income from bracket i on, previous_limit as it is
\* when the loop reaches bracket i.
RECURSIVE tax_on_income_from(_, _, _, _)
tax_on_income_from(income, brackets, i, previous_limit) ==
    IF i > Len(brackets) THEN 0
    ELSE IF income > previous_limit
         THEN Min(income - previous_limit, brackets[i][1] - previous_limit)
                  * brackets[i][2]
              + tax_on_income_from(income, brackets, i + 1, brackets[i][1])
         ELSE 0

tax_on_income(income, brackets) == tax_on_income_from(income, brackets, 1, 0)

\* Plausible slip: the tax at the start of the slice is not subtracted.
calc_progressive_tax_no_base(income_start, increment) ==
    IF increment <= 0 THEN 0
    ELSE tax_on_income(income_start + increment, ISRAELI_TAX_BRACKETS_2025)

\* Plausible slip: the early return for increment <= 0 is missing.
calc_progressive_tax_no_guard(income_start, increment) ==
    tax_on_income(income_start + increment, ISRAELI_TAX_BRACKETS_2025)
        - tax_on_income(income_start, ISRAELI_TAX_BRACKETS_2025)

calc_progressive_tax(income_start, increment) ==
    IF increment <= 0 THEN 0
    ELSE tax_on_income(income_start + increment, ISRAELI_TAX_BRACKETS_2025)
             - tax_on_income(income_start, ISRAELI_TAX_BRACKETS_2025)

(***************************************************************************)
(* Dates.  pd.to_datetime of a 'YYYY-MM-DD' string: a calendar day.        *)
(***************************************************************************)

Date(y, m, d) == [y |-> y, m |-> m, d |-> d]

IsLeap(y) == (y % 4 = 0 /\ y % 100 # 0) \/ y % 400 = 0

DaysInMonth(y, m) ==
    IF m = 2 THEN (IF IsLeap(y) THEN 29 ELSE 28)
    ELSE IF m \in {4, 6, 9, 11} THEN 30 ELSE 31

\* date + relativedelta(months=n): the day is clipped to the target month.
AddMonths(date, n) ==
    LET total == (date.m - 1) + n
        y2    == date.y + (total \div 12)
        m2    == (total % 12) + 1
    IN  Date(y2, m2, Min(date.d, DaysInMonth(y2, m2)))

DateLT(a, b) ==
    \/ a.y < b.y
    \/ a.y = b.y /\ a.m < b.m
    \/ a.y = b.y /\ a.m = b.m /\ a.d < b.d

(***************************************************************************)
(* get_tax_components                                                      *)
(*                                                                         *)
(* A quote (the result of get_stock_price or get_fx_rate) is <<>> for None *)
(* and <<v>> for the number v.  A note is the sequence of the pieces of    *)
(* the string, so that startswith("§102") reads its first piece.           *)
(***************************************************************************)

NoQuote == <<>>

\* Python truthiness of an Optional[float]: None and 0 are falsy.
Truthy(q) == Len(q) > 0 /\ q[1] # 0

NOTE_DISQUALIFIED == <<"§102", " Disqualified (sold < 24m): Full amount is ordinary income.">>

NOTE_102 == <<"§102", " Capital Gains Route">>

NOTE_UNDERWATER == <<"§102", " Underwater: Ordinary income only, no capital loss.">>

NOTE_NON_102 == <<"Non-", "§102", ": Capital gain/loss from vest date.">>

\* Plausible slip: any non-empty 'Section 102' value takes the §102 branch.
is_capital_gains_route_any(grant) == grant.section_102 # ""

is_capital_gains_route(grant) == grant.section_102 = "Capital Gains Route"

\* Plausible slip: <= for <, a sale on the 24-month day is disqualified.
is_disqualified_le(sale_date, grant_date) ==
    ~ DateLT(AddMonths(grant_date, 24), sale_date)

is_disqualified(sale_date, grant_date) ==
    DateLT(sale_date, AddMonths(grant_date, 24))

\* Plausible slip: the disqualified branch keeps the qualified split.
components_disqualified_split(base_102_nis, sale_nis) ==
    [ordinary_per_share |-> Min(base_102_nis, sale_nis),
     capital_per_share  |-> Max(0, sale_nis - base_102_nis),
     note               |-> NOTE_DISQUALIFIED]

components_disqualified(base_102_nis, sale_nis) ==
    [ordinary_per_share |-> sale_nis,
     capital_per_share  |-> 0,
     note               |-> NOTE_DISQUALIFIED]

\* Plausible slip: the ordinary component is the base value, the capital
\* component the signed difference.
components_qualified_signed(base_102_nis, sale_nis) ==
    [ordinary_per_share |-> base_102_nis,
     capital_per_share  |-> sale_nis - base_102_nis,
     note               |-> IF sale_nis < base_102_nis
                            THEN NOTE_UNDERWATER ELSE NOTE_102]

components_qualified(base_102_nis, sale_nis) ==
    [ordinary_per_share |-> Min(base_102_nis, sale_nis),
     capital_per_share  |-> Max(0, sale_nis - base_102_nis),
     note               |-> IF sale_nis < base_102_nis
                            THEN NOTE_UNDERWATER ELSE NOTE_102]

components_non_102(vest_nis, sale_nis) ==
    [ordinary_per_share |-> 0,
     capital_per_share  |-> sale_nis - vest_nis,
     note               |-> NOTE_NON_102]

\* The returned dict, from the branch's three values.
components_dict(branch, sale_nis, q) ==
    [ordinary_per_share |-> branch.ordinary_per_share,
     capital_per_share  |-> branch.capital_per_share,
     sale_price_nis     |-> sale_nis,
     grant_price_nis    |-> q.grant_price[1] * q.grant_fx[1],
     sale_price_usd     |-> q.sale_price[1],
     grant_price_usd    |-> q.grant_price[1],
     note               |-> branch.note]

\* Plausible slip: with a quote missing the dict is returned with the
\* initial values of its fields instead of None.
get_tax_components_defaults(grant, q, sale_date) ==
    IF ~ (Truthy(q.sale_price) /\ Truthy(q.sale_fx)
          /\ Truthy(q.grant_price) /\ Truthy(q.grant_fx))
    THEN <<[ordinary_per_share |-> 0, capital_per_share |-> 0,
            sale_price_nis |-> 0, grant_price_nis |-> 0,
            sale_price_usd |-> 0, grant_price_usd |-> 0, note |-> <<>>]>>
    ELSE LET sale_nis == q.sale_price[1] * q.sale_fx[1]
         IN  IF is_capital_gains_route(grant)
             THEN LET base_102_nis == q.grant_price[1] * q.grant_fx[1]
                  IN  IF is_disqualified(sale_date, grant.grant_date)
                      THEN <<components_dict(
                               components_disqualified(base_102_nis, sale_nis),
                               sale_nis, q)>>
                      ELSE <<components_dict(
                               components_qualified(base_102_nis, sale_nis),
                               sale_nis, q)>>
             ELSE IF ~ (Truthy(q.vest_price) /\ Truthy(q.vest_fx))
                  THEN <<>>
                  ELSE <<components_dict(
                           components_non_102(
                               q.vest_price[1] * q.vest_fx[1], sale_nis),
                           sale_nis, q)>>

\* <<>> is None; q holds what get_stock_price and get_fx_rate return for
\* this grant's stock code and dates.
get_tax_components(grant, q, sale_date) ==
    IF ~ (Truthy(q.sale_price) /\ Truthy(q.sale_fx)
          /\ Truthy(q.grant_price) /\ Truthy(q.grant_fx))
    THEN <<>>
    ELSE LET sale_nis == q.sale_price[1] * q.sale_fx[1]
         IN  IF is_capital_gains_route(grant)
             THEN LET base_102_nis == q.grant_price[1] * q.grant_fx[1]
                  IN  IF is_disqualified(sale_date, grant.grant_date)
                      THEN <<components_dict(
                               components_disqualified(base_102_nis, sale_nis),
                               sale_nis, q)>>
                      ELSE <<components_dict(
                               components_qualified(base_102_nis, sale_nis),
                               sale_nis, q)>>
             ELSE IF ~ (Truthy(q.vest_price) /\ Truthy(q.vest_fx))
                  THEN <<>>
                  ELSE <<components_dict(
                           components_non_102(
                               q.vest_price[1] * q.vest_fx[1], sale_nis),
                           sale_nis, q)>>

(***************************************************************************)
(* optimize_rsu_sales: the pure pieces                                     *)
(***************************************************************************)

\* Plausible slip: the quotient is taken the wrong way round.
efficiency_inverted(components) ==
    IF components.ordinary_per_share > 0 /\ components.capital_per_share > 0
    THEN <<components.ordinary_per_share, components.capital_per_share>>
    ELSE IF components.capital_per_share > 0 THEN <<1, 0>> ELSE <<0, 1>>

\* An efficiency is the pair <<numerator, denominator>> of the quotient;
\* <<1, 0>> is float('inf') and <<0, 1>> is 0.
efficiency(components) ==
    IF components.ordinary_per_share > 0 /\ components.capital_per_share > 0
    THEN <<components.capital_per_share, components.ordinary_per_share>>
    ELSE IF components.capital_per_share > 0 THEN <<1, 0>> ELSE <<0, 1>>

\* a > b on efficiencies.
EffGT(a, b) == a[1] * b[2] > b[1] * a[2]

startswith_102(note) == Len(note) >= 1 /\ note[1] = "§102"

\* Plausible slip: > 0 for >= 0, a grant without capital gain is left out.
is_s102_gain_strict(g) ==
    /\ startswith_102(g.note)
    /\ g.capital_per_share > 0
    /\ g.ordinary_per_share > 0

is_s102_gain(g) ==
    /\ startswith_102(g.note)
    /\ g.capital_per_share >= 0
    /\ g.ordinary_per_share > 0

is_cap_loss(g) == g.capital_per_share < 0

\* Plausible slip: g goes before the elements of equal efficiency (an
\* ascending sort that is then reversed), so ties come out in reverse
\* input order.
RECURSIVE KeepBefore_ties_reversed(_, _)
KeepBefore_ties_reversed(seq, g) ==
    IF seq = <<>> THEN 0
    ELSE IF ~ EffGT(Head(seq).efficiency, g.efficiency) THEN 0
         ELSE 1 + KeepBefore_ties_reversed(Tail(seq), g)

\* Number of leading elements of seq that g does not beat: where a stable
\* descending sort puts g when it comes after them in the input.
RECURSIVE KeepBefore(_, _)
KeepBefore(seq, g) ==
    IF seq = <<>> THEN 0
    ELSE IF EffGT(g.efficiency, Head(seq).efficiency) THEN 0
         ELSE 1 + KeepBefore(Tail(seq), g)

\* front with g put after its first KeepBefore(front, g) elements.
insert_stable(front, g) ==
    LET k == KeepBefore(front, g)
    IN  SubSeq(front, 1, k) \o <<g>> \o SubSeq(front, k + 1, Len(front))

\* sorted(seq, key=efficiency, reverse=True): stable, equal keys keep their
\* input order.  The sorted front is bound as the one element of a set, so
\* that it is evaluated once.
RECURSIVE sorted_by_efficiency_desc(_)
sorted_by_efficiency_desc(seq) ==
    IF seq = <<>> THEN <<>>
    ELSE CHOOSE out \in
             {insert_stable(front, seq[Len(seq)]) :
                  front \in {sorted_by_efficiency_desc(
                                 SubSeq(seq, 1, Len(seq) - 1))}} : TRUE

\* Plausible slip: the cap at the grant's unit count is missing.
phase1_units_uncapped(grant, room_for_ord_income) ==
    room_for_ord_income \div grant.ordinary_per_share

\* Plausible slip: rounds up, the last unit overshoots the ceiling.
phase1_units_ceil(grant, room_for_ord_income) ==
    Min(grant.number_of_units,
        (room_for_ord_income + grant.ordinary_per_share - 1)
            \div grant.ordinary_per_share)

\* min(units, int(room / ord_per_share)); room and ord_per_share are > 0
\* where this is evaluated, so int() is the floor.
phase1_units(grant, room_for_ord_income) ==
    Min(grant.number_of_units,
        room_for_ord_income \div grant.ordinary_per_share)

\* Plausible slip: floor + 1 for the ceiling, one unit too many when the
\* needed loss is a multiple of the loss per share.
phase2_units_floor_plus_one(grant, needed_loss) ==
    Min(grant.number_of_units,
        (needed_loss \div Abs(grant.capital_per_share)) + 1)

\* Plausible slip: int() without np.ceil, so the last partial unit of
\* loss is never sold.
phase2_units_floor(grant, needed_loss) ==
    Min(grant.number_of_units,
        needed_loss \div Abs(grant.capital_per_share))

\* min(units, int(np.ceil(needed_loss / loss_per_share))), both > 0.
phase2_units(grant, needed_loss) ==
    Min(grant.number_of_units,
        (needed_loss + Abs(grant.capital_per_share) - 1)
            \div Abs(grant.capital_per_share))

\* sum(rec["capital_per_share"] * rec["units_to_sell"] for rec in recs)
RECURSIVE sum_cap_gain(_)
sum_cap_gain(recs) ==
    IF recs = <<>> THEN 0
    ELSE Head(recs).capital_per_share * Head(recs).units_to_sell
             + sum_cap_gain(Tail(recs))

\* Plausible slip: the capital-gains tax of a loss is not clipped at 0.
result_row_signed_cgt(rec, income_start) ==
    LET units      == rec.units_to_sell
        ord_total  == rec.ordinary_per_share * units
        cap_total  == rec.capital_per_share * units
        income_tax == calc_progressive_tax(income_start, ord_total)
        cgt        == cap_total * CAPITAL_GAINS_RATE
    IN  [row |-> rec.row, units |-> units, ord_total |-> ord_total,
         cap_total |-> cap_total, income_tax |-> income_tax, cgt |-> cgt,
         total_tax |-> income_tax + cgt,
         net_proceeds |-> rec.sale_price_nis * units * 100 - (income_tax + cgt),
         sale_price_nis |-> rec.sale_price_nis, note |-> rec.note]

\* One row of final_results.  The row's amounts are printed with two
\* decimals; the amounts here are whole NIS or whole 1/100 NIS, which that
\* prints exactly.
result_row(rec, income_start) ==
    LET units      == rec.units_to_sell
        ord_total  == rec.ordinary_per_share * units
        cap_total  == rec.capital_per_share * units
        income_tax == calc_progressive_tax(income_start, ord_total)
        cgt        == Max(0, cap_total) * CAPITAL_GAINS_RATE
    IN  [row |-> rec.row, units |-> units, ord_total |-> ord_total,
         cap_total |-> cap_total, income_tax |-> income_tax, cgt |-> cgt,
         total_tax |-> income_tax + cgt,
         net_proceeds |-> rec.sale_price_nis * units * 100 - (income_tax + cgt),
         sale_price_nis |-> rec.sale_price_nis, note |-> rec.note]

(***************************************************************************)
(* Idle values: what the variables of the operations a specification does  *)
(* not run are held at.                                                    *)
(***************************************************************************)

TaxIdle ==
    /\ tax_pc = "idle"
    /\ tax_args = [base |-> 0, x |-> 0, y |-> 0]
    /\ tax_out = <<>>

CompIdle ==
    /\ comp_pc = "idle"
    /\ comp_args = <<>>
    /\ comp_out = <<>>

OptIdle ==
    /\ pc = "idle"
    /\ rsu_data = <<>>
    /\ market = <<>>
    /\ current_income = 0
    /\ target_bracket_limit = 0
    /\ income_room = 0
    /\ grants_to_process = <<>>
    /\ s102_gains = <<>>
    /\ cap_losses = <<>>
    /\ recommendations = <<>>
    /\ running_income = 0
    /\ total_cap_gain_to_offset = 0
    /\ running_loss_sold = 0
    /\ final_results = <<>>
    /\ running_income_for_tax = 0
    /\ idx = 0
    /\ phase1_log = <<>>
    /\ phase1_visits = <<>>
    /\ phase2_visits = <<>>
    /\ summary = <<>>
    /\ run_no = 1
    /\ first_run = <<>>

(***************************************************************************)
(* SpecTax: calc_progressive_tax on its own.  The call evaluates the three *)
(* slices base..base+x+y, base..base+x and base+x..base+x+y.               *)
(***************************************************************************)

TaxBases ==
    {0 - 1000, 0, 50000, 84119, 84120, 84121, 100000, 120720, 193800,
     269280, 560280, 721560, 800000}

TaxIncrements == {0 - 500, 0, 1, 600, 17500, 36600, 110000, 500000, 730000}

InitTax ==
    /\ tax_pc = "call"
    /\ tax_args \in [base : TaxBases, x : TaxIncrements, y : TaxIncrements]
    /\ tax_out = <<>>
    /\ CompIdle
    /\ OptIdle

CalcTax ==
    /\ tax_pc = "call"
    /\ tax_out' = [whole  |-> calc_progressive_tax(tax_args.base,
                                                   tax_args.x + tax_args.y),
                   first  |-> calc_progressive_tax(tax_args.base, tax_args.x),
                   second |-> calc_progressive_tax(tax_args.base + tax_args.x,
                                                   tax_args.y)]
    /\ tax_pc' = "done"
    /\ UNCHANGED <<tax_args, comp_pc, comp_args, comp_out>>
    /\ UNCHANGED optVars

NextTax == CalcTax

SpecTax == InitTax /\ [][NextTax]_vars

(***************************************************************************)
(* SpecComp: get_tax_components on its own.                                *)
(***************************************************************************)

Routes == {"Capital Gains Route", "Ordinary Income Route", "Not Capital Gains Route"}

CompGrantDates == {Date(2020, 2, 29), Date(2022, 1, 1), Date(2023, 6, 15)}

CompSaleDates ==
    {Date(2022, 2, 27), Date(2022, 2, 28), Date(2022, 3, 1), Date(2023, 12, 31),
     Date(2024, 1, 1), Date(2025, 6, 14), Date(2025, 6, 15), Date(2025, 6, 16)}

CompQuotes ==
    [sale_price  : {NoQuote, <<0>>, <<40>>, <<50>>, <<150>>},
     sale_fx     : {NoQuote, <<3>>, <<4>>},
     grant_price : {NoQuote, <<40>>, <<50>>},
     grant_fx    : {NoQuote, <<3>>, <<4>>},
     vest_price  : {NoQuote, <<50>>, <<100>>},
     vest_fx     : {NoQuote, <<4>>}]

CompGrants ==
    [section_102     : Routes,
     grant_date      : CompGrantDates,
     vesting_date    : {Date(2024, 6, 15)},
     number_of_units : {100}]

InitComp ==
    /\ comp_pc = "call"
    /\ comp_args \in [grant : CompGrants, quotes : CompQuotes,
                      sale_date : CompSaleDates]
    /\ comp_out = <<>>
    /\ TaxIdle
    /\ OptIdle

CallComp ==
    /\ comp_pc = "call"
    /\ comp_out' = get_tax_components(comp_args.grant, comp_args.quotes,
                                      comp_args.sale_date)
    /\ comp_pc' = "done"
    /\ UNCHANGED <<comp_args, tax_pc, tax_args, tax_out>>
    /\ UNCHANGED optVars

NextComp == CallComp

SpecComp == InitComp /\ [][NextComp]_vars

(***************************************************************************)
(* Claims about calc_progressive_tax (SpecTax)                             *)
(***************************************************************************)

\* C5: calc_progressive_tax(base, increment) is 0 for every base when
\* increment <= 0, and is >= 0 for every base and every increment >= 0.
C5_TaxZeroAndNonNegative ==
    tax_pc = "done" =>
        /\ (tax_args.x <= 0 => tax_out.first = 0)
        /\ (tax_args.y <= 0 => tax_out.second = 0)
        /\ (tax_args.x + tax_args.y <= 0 => tax_out.whole = 0)
        /\ (tax_args.x >= 0 => tax_out.first >= 0)
        /\ (tax_args.y >= 0 => tax_out.second >= 0)
        /\ (tax_args.x + tax_args.y >= 0 => tax_out.whole >= 0)

\* A negative increment on a taxed base gave 0, and a positive slice over
\* two bracket limits gave a positive tax.
C5_Witness ==
    /\ tax_pc = "done"
    /\ tax_args.base = 100000
    /\ tax_args.x < 0
    /\ tax_out.first = 0
    /\ tax_args.y = 110000
    /\ tax_out.second > 0

\* C6: additivity: calc(base, x + y) = calc(base, x) + calc(base + x, y)
\* for every base and all x, y >= 0, across bracket limits too.
C6_TaxAdditive ==
    (tax_pc = "done" /\ tax_args.x >= 0 /\ tax_args.y >= 0) =>
        tax_out.whole = tax_out.first + tax_out.second

\* Both slices cross a bracket limit: 50000..86600 crosses 84120 and
\* 86600..196600 crosses 120720 and 193800.
C6_Witness ==
    /\ tax_pc = "done"
    /\ tax_args = [base |-> 50000, x |-> 36600, y |-> 110000]
    /\ tax_out.first = 34120 * 10 + 2480 * 14
    /\ tax_out.second = 34120 * 14 + 73080 * 20 + 2800 * 31
    /\ tax_out.whole = tax_out.first + tax_out.second

(***************************************************************************)
(* Claims about get_tax_components (SpecComp)                              *)
(***************************************************************************)

CompAvailable ==
    /\ Truthy(comp_args.quotes.sale_price)
    /\ Truthy(comp_args.quotes.sale_fx)
    /\ Truthy(comp_args.quotes.grant_price)
    /\ Truthy(comp_args.quotes.grant_fx)

CompSaleValue == comp_args.quotes.sale_price[1] * comp_args.quotes.sale_fx[1]

CompBaseValue == comp_args.quotes.grant_price[1] * comp_args.quotes.grant_fx[1]

CompHeld24Months ==
    ~ DateLT(comp_args.sale_date, AddMonths(comp_args.grant.grant_date, 24))

\* C7: a Capital Gains Route grant sold on or after grant date + 24 months
\* has ordinary = min(base, sale) and capital = max(0, sale - base); when
\* underwater, capital = 0 and ordinary = sale; capital is never negative.
C7_QualifiedSplit ==
    (/\ comp_pc = "done"
     /\ comp_args.grant.section_102 = "Capital Gains Route"
     /\ CompAvailable
     /\ CompHeld24Months) =>
        /\ Len(comp_out) = 1
        /\ comp_out[1].ordinary_per_share = Min(CompBaseValue, CompSaleValue)
        /\ comp_out[1].capital_per_share = Max(0, CompSaleValue - CompBaseValue)
        /\ comp_out[1].capital_per_share >= 0
        /\ (CompSaleValue < CompBaseValue =>
                /\ comp_out[1].capital_per_share = 0
                /\ comp_out[1].ordinary_per_share = CompSaleValue)

\* Underwater (sale 40*3 = 120 < base 50*3 = 150), sold exactly on the
\* 24-month day of a grant of 2022-01-01.
C7_Witness ==
    /\ comp_pc = "done"
    /\ comp_args.grant.section_102 = "Capital Gains Route"
    /\ comp_args.grant.grant_date = Date(2022, 1, 1)
    /\ comp_args.sale_date = Date(2024, 1, 1)
    /\ comp_args.quotes.sale_price = <<40>>
    /\ comp_args.quotes.sale_fx = <<3>>
    /\ comp_args.quotes.grant_price = <<50>>
    /\ comp_args.quotes.grant_fx = <<3>>
    /\ Len(comp_out) = 1
    /\ comp_out[1].ordinary_per_share = 120
    /\ comp_out[1].capital_per_share = 0

\* C8: a Capital Gains Route grant sold strictly before grant date + 24
\* months has ordinary = sale value and capital = 0, whether the sale value
\* is above, equal to or below the base value.
C8_DisqualifiedAllOrdinary ==
    (/\ comp_pc = "done"
     /\ comp_args.grant.section_102 = "Capital Gains Route"
     /\ CompAvailable
     /\ ~ CompHeld24Months) =>
        /\ Len(comp_out) = 1
        /\ comp_out[1].ordinary_per_share = CompSaleValue
        /\ comp_out[1].capital_per_share = 0

\* Sale value 150*4 = 600 above the base 50*3 = 150, sold the day before
\* the 24-month day.
C8_Witness ==
    /\ comp_pc = "done"
    /\ comp_args.grant.section_102 = "Capital Gains Route"
    /\ comp_args.grant.grant_date = Date(2022, 1, 1)
    /\ comp_args.sale_date = Date(2023, 12, 31)
    /\ comp_args.quotes.sale_price = <<150>>
    /\ comp_args.quotes.sale_fx = <<4>>
    /\ comp_args.quotes.grant_price = <<50>>
    /\ comp_args.quotes.grant_fx = <<3>>
    /\ Len(comp_out) = 1
    /\ comp_out[1].ordinary_per_share = 600
    /\ comp_out[1].capital_per_share = 0

(***************************************************************************)
(* Spec: optimize_rsu_sales(rsu_data, current_income, target_bracket_limit)*)
(***************************************************************************)

MaxGrants == 3

\* datetime.now(), the sale date of the run.
OptToday == Date(2025, 6, 15)

\* Sale 570, grant-date base 175, vest value 360.
QuotesGain ==
    [sale_price |-> <<57>>, sale_fx |-> <<10>>, grant_price |-> <<35>>,
     grant_fx |-> <<5>>, vest_price |-> <<36>>, vest_fx |-> <<10>>]

\* Sale 152, grant-date base 175, vest value 360.
QuotesUnder ==
    [sale_price |-> <<38>>, sale_fx |-> <<4>>, grant_price |-> <<35>>,
     grant_fx |-> <<5>>, vest_price |-> <<36>>, vest_fx |-> <<10>>]

\* Sale 570, grant-date base 350, vest value 572.
QuotesLowGain ==
    [sale_price |-> <<57>>, sale_fx |-> <<10>>, grant_price |-> <<35>>,
     grant_fx |-> <<10>>, vest_price |-> <<143>>, vest_fx |-> <<4>>]

\* No sale price.
QuotesMissing ==
    [sale_price |-> NoQuote, sale_fx |-> <<10>>, grant_price |-> <<35>>,
     grant_fx |-> <<5>>, vest_price |-> <<36>>, vest_fx |-> <<10>>]

Row(route, units, grant_date) ==
    [section_102 |-> route, grant_date |-> grant_date,
     vesting_date |-> Date(2024, 6, 15), number_of_units |-> units]

\* The rows a run may hold, each with the quotes of its stock code.
GrantPool ==
    {<<Row("Capital Gains Route", 3, Date(2022, 1, 1)), QuotesGain>>,
     <<Row("Capital Gains Route", 100, Date(2022, 1, 1)), QuotesGain>>,
     <<Row("Capital Gains Route", 100, Date(2022, 1, 1)), QuotesUnder>>,
     <<Row("Capital Gains Route", 3, Date(2022, 1, 1)), QuotesLowGain>>,
     <<Row("Ordinary Income Route", 3, Date(2022, 1, 1)), QuotesUnder>>,
     <<Row("Ordinary Income Route", 100, Date(2022, 1, 1)), QuotesLowGain>>,
     <<Row("Ordinary Income Route", 100, Date(2022, 1, 1)), QuotesGain>>,
     <<Row("Capital Gains Route", 100, Date(2024, 1, 1)), QuotesGain>>,
     <<Row("Capital Gains Route", 3, Date(2022, 1, 1)), QuotesMissing>>}

Incomes == {83420, 83770, 100000, 269280}

Ceilings == {84120, 269280}

\* The DataFrame row at position i, with its position.
WithRow(pair, i) == pair[1] @@ [row |-> i]

Init ==
    /\ pc = "start"
    /\ \E n \in 0..MaxGrants :
           \E picks \in [1..n -> GrantPool] :
               /\ rsu_data = [i \in 1..n |-> WithRow(picks[i], i)]
               /\ market = [i \in 1..n |-> picks[i][2]]
    /\ current_income \in Incomes
    /\ target_bracket_limit \in Ceilings
    /\ income_room = 0
    /\ grants_to_process = <<>>
    /\ s102_gains = <<>>
    /\ cap_losses = <<>>
    /\ recommendations = <<>>
    /\ running_income = 0
    /\ total_cap_gain_to_offset = 0
    /\ running_loss_sold = 0
    /\ final_results = <<>>
    /\ running_income_for_tax = 0
    /\ idx = 0
    /\ phase1_log = <<>>
    /\ phase1_visits = <<>>
    /\ phase2_visits = <<>>
    /\ summary = <<>>
    /\ run_no = 1
    /\ first_run = <<>>
    /\ TaxIdle
    /\ CompIdle

\* Where a loop over seq goes once position i is done.
LoopPc(loop, after, i, seq) == IF i + 1 > Len(seq) THEN after ELSE loop

Begin ==
    /\ pc = "start"
    /\ income_room' = IF target_bracket_limit - current_income <= 0
                      THEN 0
                      ELSE target_bracket_limit - current_income
    /\ grants_to_process' = <<>>
    /\ idx' = 1
    /\ pc' = LoopPc("resolve", "partition", 0, rsu_data)
    /\ UNCHANGED <<rsu_data, market, current_income, target_bracket_limit,
                   s102_gains, cap_losses, recommendations, running_income,
                   total_cap_gain_to_offset, running_loss_sold, final_results,
                   running_income_for_tax, phase1_log>>
    /\ UNCHANGED <<phase1_visits, phase2_visits, summary>>
    /\ UNCHANGED <<taxVars, compVars, run_no, first_run>>

\* One pass of the loop over rsu_data.iterrows().
ResolveGrant ==
    /\ pc = "resolve"
    /\ LET grant      == rsu_data[idx]
           components == get_tax_components(grant, market[idx], OptToday)
       IN  grants_to_process' =
               IF components = <<>>
               THEN grants_to_process
               ELSE Append(grants_to_process,
                           grant @@ components[1]
                                 @@ [efficiency |-> efficiency(components[1])])
    /\ idx' = idx + 1
    /\ pc' = LoopPc("resolve", "partition", idx, rsu_data)
    /\ UNCHANGED <<rsu_data, market, current_income, target_bracket_limit,
                   income_room, s102_gains, cap_losses, recommendations,
                   running_income, total_cap_gain_to_offset, running_loss_sold,
                   final_results, running_income_for_tax, phase1_log>>
    /\ UNCHANGED <<phase1_visits, phase2_visits, summary>>
    /\ UNCHANGED <<taxVars, compVars, run_no, first_run>>

\* Plausible slip: running_income starts at 0, not at current_income.
Partition_running_zero ==
    /\ pc = "partition"
    /\ s102_gains' = sorted_by_efficiency_desc(
                         SelectSeq(grants_to_process, is_s102_gain))
    /\ cap_losses' = SelectSeq(grants_to_process, is_cap_loss)
    /\ recommendations' = <<>>
    /\ running_income' = 0
    /\ idx' = 1
    /\ pc' = LoopPc("phase1", "offset", 0, s102_gains')
    /\ UNCHANGED <<rsu_data, market, current_income, target_bracket_limit,
                   income_room, grants_to_process, total_cap_gain_to_offset,
                   running_loss_sold, final_results, running_income_for_tax,
                   phase1_log>>
    /\ UNCHANGED <<phase1_visits, phase2_visits, summary>>
    /\ UNCHANGED <<taxVars, compVars, run_no, first_run>>

\* Plausible slip: recommendations is not emptied at the start of the
\* phases (a list kept from one call to the next).
Partition_keep_recommendations ==
    /\ pc = "partition"
    /\ s102_gains' = sorted_by_efficiency_desc(
                         SelectSeq(grants_to_process, is_s102_gain))
    /\ cap_losses' = SelectSeq(grants_to_process, is_cap_loss)
    /\ recommendations' = recommendations
    /\ running_income' = current_income
    /\ idx' = 1
    /\ pc' = LoopPc("phase1", "offset", 0, s102_gains')
    /\ UNCHANGED <<rsu_data, market, current_income, target_bracket_limit,
                   income_room, grants_to_process, total_cap_gain_to_offset,
                   running_loss_sold, final_results, running_income_for_tax,
                   phase1_log>>
    /\ UNCHANGED <<phase1_visits, phase2_visits, summary>>
    /\ UNCHANGED <<taxVars, compVars, run_no, first_run>>

Partition ==
    /\ pc = "partition"
    /\ s102_gains' = sorted_by_efficiency_desc(
                         SelectSeq(grants_to_process, is_s102_gain))
    /\ cap_losses' = SelectSeq(grants_to_process, is_cap_loss)
    /\ recommendations' = <<>>
    /\ running_income' = current_income
    /\ idx' = 1
    /\ pc' = LoopPc("phase1", "offset", 0, s102_gains')
    /\ UNCHANGED <<rsu_data, market, current_income, target_bracket_limit,
                   income_room, grants_to_process, total_cap_gain_to_offset,
                   running_loss_sold, final_results, running_income_for_tax,
                   phase1_log>>
    /\ UNCHANGED <<phase1_visits, phase2_visits, summary>>
    /\ UNCHANGED <<taxVars, compVars, run_no, first_run>>

\* One pass of the loop over s102_gains.
Phase1Step ==
    /\ pc = "phase1"
    /\ LET grant               == s102_gains[idx]
           ord_per_share       == grant.ordinary_per_share
           room_for_ord_income == target_bracket_limit - running_income
           units_to_sell       == phase1_units(grant, room_for_ord_income)
       IN  /\ IF ord_per_share <= 0
               THEN /\ pc' = LoopPc("phase1", "offset", idx, s102_gains)
                    /\ UNCHANGED <<recommendations, running_income, phase1_log>>
               ELSE IF room_for_ord_income <= 0
               THEN /\ pc' = "offset"
                    /\ UNCHANGED <<recommendations, running_income, phase1_log>>
               ELSE IF units_to_sell <= 0
               THEN /\ pc' = LoopPc("phase1", "offset", idx, s102_gains)
                    /\ UNCHANGED <<recommendations, running_income, phase1_log>>
               ELSE /\ pc' = LoopPc("phase1", "offset", idx, s102_gains)
                    /\ recommendations' =
                           Append(recommendations,
                                  grant @@ [units_to_sell |-> units_to_sell])
                    /\ running_income' =
                           running_income + units_to_sell * ord_per_share
                    /\ phase1_log' =
                           Append(phase1_log,
                                  [row |-> grant.row,
                                   units_to_sell |-> units_to_sell,
                                   room |-> room_for_ord_income,
                                   running_income |-> running_income'])
           /\ phase1_visits' =
                  Append(phase1_visits,
                         [row     |-> grant.row,
                          room    |-> room_for_ord_income,
                          outcome |-> IF ord_per_share <= 0 THEN "continue"
                                      ELSE IF room_for_ord_income <= 0
                                           THEN "break"
                                      ELSE IF units_to_sell <= 0 THEN "skip"
                                      ELSE "sold"])
    /\ idx' = idx + 1
    /\ UNCHANGED <<rsu_data, market, current_income, target_bracket_limit,
                   income_room, grants_to_process, s102_gains, cap_losses,
                   total_cap_gain_to_offset, running_loss_sold, final_results,
                   running_income_for_tax>>
    /\ UNCHANGED <<phase2_visits, summary>>
    /\ UNCHANGED <<taxVars, compVars, run_no, first_run>>

ComputeOffset ==
    /\ pc = "offset"
    /\ total_cap_gain_to_offset' = sum_cap_gain(recommendations)
    /\ running_loss_sold' = 0
    /\ idx' = 1
    /\ pc' = LoopPc("phase2", "results", 0, cap_losses)
    /\ UNCHANGED <<rsu_data, market, current_income, target_bracket_limit,
                   income_room, grants_to_process, s102_gains, cap_losses,
                   recommendations, running_income, final_results,
                   running_income_for_tax, phase1_log>>
    /\ UNCHANGED <<phase1_visits, phase2_visits, summary>>
    /\ UNCHANGED <<taxVars, compVars, run_no, first_run>>

\* One pass of the loop over cap_losses.
Phase2Step ==
    /\ pc = "phase2"
    /\ LET grant          == cap_losses[idx]
           loss_per_share == Abs(grant.capital_per_share)
           needed_loss    == total_cap_gain_to_offset - running_loss_sold
           units_to_sell  == phase2_units(grant, needed_loss)
       IN  /\ IF running_loss_sold >= total_cap_gain_to_offset
               THEN /\ pc' = "results"
                    /\ UNCHANGED <<recommendations, running_loss_sold>>
               ELSE IF loss_per_share <= 0
               THEN /\ pc' = LoopPc("phase2", "results", idx, cap_losses)
                    /\ UNCHANGED <<recommendations, running_loss_sold>>
               ELSE IF units_to_sell <= 0
               THEN /\ pc' = LoopPc("phase2", "results", idx, cap_losses)
                    /\ UNCHANGED <<recommendations, running_loss_sold>>
               ELSE /\ pc' = LoopPc("phase2", "results", idx, cap_losses)
                    /\ recommendations' =
                           Append(recommendations,
                                  grant @@ [units_to_sell |-> units_to_sell])
                    /\ running_loss_sold' =
                           running_loss_sold + units_to_sell * loss_per_share
           /\ phase2_visits' =
                  Append(phase2_visits,
                         [row     |-> grant.row,
                          outcome |-> IF running_loss_sold
                                             >= total_cap_gain_to_offset
                                      THEN "break"
                                      ELSE IF loss_per_share <= 0
                                           THEN "continue"
                                      ELSE IF units_to_sell <= 0 THEN "skip"
                                      ELSE "sold"])
    /\ idx' = idx + 1
    /\ UNCHANGED <<rsu_data, market, current_income, target_bracket_limit,
                   income_room, grants_to_process, s102_gains, cap_losses,
                   running_income, total_cap_gain_to_offset, final_results,
                   running_income_for_tax, phase1_log>>
    /\ UNCHANGED <<phase1_visits, summary>>
    /\ UNCHANGED <<taxVars, compVars, run_no, first_run>>

InitResults ==
    /\ pc = "results"
    /\ final_results' = <<>>
    /\ running_income_for_tax' = current_income
    /\ idx' = 1
    /\ pc' = LoopPc("tax", "done", 0, recommendations)
    /\ UNCHANGED <<rsu_data, market, current_income, target_bracket_limit,
                   income_room, grants_to_process, s102_gains, cap_losses,
                   recommendations, running_income, total_cap_gain_to_offset,
                   running_loss_sold, phase1_log>>
    /\ UNCHANGED <<phase1_visits, phase2_visits, summary>>
    /\ UNCHANGED <<taxVars, compVars, run_no, first_run>>

\* One pass of the loop over recommendations.
TaxStep ==
    /\ pc = "tax"
    /\ LET rec == recommendations[idx]
           out == result_row(rec, running_income_for_tax)
       IN  /\ final_results' = Append(final_results, out)
           /\ running_income_for_tax' = running_income_for_tax + out.ord_total
    /\ idx' = idx + 1
    /\ pc' = LoopPc("tax", "done", idx, recommendations)
    /\ UNCHANGED <<rsu_data, market, current_income, target_bracket_limit,
                   income_room, grants_to_process, s102_gains, cap_losses,
                   recommendations, running_income, total_cap_gain_to_offset,
                   running_loss_sold, phase1_log>>
    /\ UNCHANGED <<phase1_visits, phase2_visits, summary>>
    /\ UNCHANGED <<taxVars, compVars, run_no, first_run>>

RECURSIVE SumField(_, _)
SumField(rows, f) ==
    IF rows = <<>> THEN 0 ELSE Head(rows)[f] + SumField(Tail(rows), f)

\* Sale Price (NIS/sh) * Units to Sell, summed, in 1/100 NIS.
RECURSIVE gross_proceeds_of(_)
gross_proceeds_of(rows) ==
    IF rows = <<>> THEN 0
    ELSE Head(rows).sale_price_nis * Head(rows).units * 100
             + gross_proceeds_of(Tail(rows))

\* The figures of the financial summary main() shows for results_df.  The
\* columns are read back from their two-decimal text, which is exact for
\* the amounts of the model.
financial_summary(rows) ==
    LET cap_gain_sum     == SumField(rows, "cap_total")
        final_income_tax == SumField(rows, "income_tax")
        final_cgt        == Max(0, cap_gain_sum) * CAPITAL_GAINS_RATE
    IN  [cap_gain_sum     |-> cap_gain_sum,
         final_income_tax |-> final_income_tax,
         final_cgt        |-> final_cgt,
         final_total_tax  |-> final_income_tax + final_cgt,
         final_net        |-> SumField(rows, "net_proceeds"),
         ord_total_sum    |-> SumField(rows, "ord_total"),
         gross_proceeds   |-> gross_proceeds_of(rows)]

\* main() after optimize_rsu_sales has returned results_df.
ShowSummary ==
    /\ pc = "done"
    /\ summary' = IF final_results # <<>>
                  THEN <<financial_summary(final_results)>>
                  ELSE <<>>
    /\ pc' = "shown"
    /\ UNCHANGED <<rsu_data, market, current_income, target_bracket_limit,
                   income_room, grants_to_process, s102_gains, cap_losses,
                   recommendations, running_income, total_cap_gain_to_offset,
                   running_loss_sold, final_results, running_income_for_tax,
                   idx, phase1_log, phase1_visits, phase2_visits>>
    /\ UNCHANGED <<taxVars, compVars, run_no, first_run>>

Next ==
    \/ Begin
    \/ ResolveGrant
    \/ Partition
    \/ Phase1Step
    \/ ComputeOffset
    \/ Phase2Step
    \/ InitResults
    \/ TaxStep
    \/ ShowSummary

Spec == Init /\ [][Next]_vars

(***************************************************************************)
(* Claims about optimize_rsu_sales (Spec)                                  *)
(***************************************************************************)

RECURSIVE SumOrdTotal(_)
SumOrdTotal(rows) ==
    IF rows = <<>> THEN 0 ELSE Head(rows).ord_total + SumOrdTotal(Tail(rows))

RECURSIVE UnitsSoldFor(_, _)
UnitsSoldFor(recs, row) ==
    IF recs = <<>> THEN 0
    ELSE (IF Head(recs).row = row THEN Head(recs).units_to_sell ELSE 0)
             + UnitsSoldFor(Tail(recs), row)

RECURSIVE RealizedLoss(_)
RealizedLoss(recs) ==
    IF recs = <<>> THEN 0
    ELSE Abs(Head(recs).capital_per_share) * Head(recs).units_to_sell
             + RealizedLoss(Tail(recs))

\* The recommendations of phase 1 come first, one per phase-1 selection.
Phase1Recs == SubSeq(recommendations, 1, Len(phase1_log))

Phase2Recs ==
    SubSeq(recommendations, Len(phase1_log) + 1, Len(recommendations))

Phase2Over == pc \in {"results", "tax", "done"}

\* C1: every recommendation has 0 < units_to_sell <= the grant's unit
\* count, no grant is recommended twice, and the units sold per grant over
\* the whole plan never exceed its unit count.
C1_UnitsWithinGrant ==
    /\ \A k \in 1..Len(recommendations) :
           /\ recommendations[k].row \in 1..Len(rsu_data)
           /\ 0 < recommendations[k].units_to_sell
           /\ recommendations[k].units_to_sell
                  <= rsu_data[recommendations[k].row].number_of_units
    /\ \A j, k \in 1..Len(recommendations) :
           j # k => recommendations[j].row # recommendations[k].row
    /\ \A i \in 1..Len(rsu_data) :
           UnitsSoldFor(recommendations, i) <= rsu_data[i].number_of_units

\* A finished plan with a phase-1 and a phase-2 recommendation, one selling
\* part of its grant and one all of it.
C1_Witness ==
    /\ pc = "done"
    /\ Len(phase1_log) >= 1
    /\ Len(recommendations) > Len(phase1_log)
    /\ \E k \in 1..Len(recommendations) :
           recommendations[k].units_to_sell
               < recommendations[k].number_of_units
    /\ \E k \in 1..Len(recommendations) :
           recommendations[k].units_to_sell
               = recommendations[k].number_of_units

\* C2: each phase-1 selection is made with room > 0, takes
\* min(unit count, floor(room / ordinary per share)) units, never more than
\* the unit count, and leaves running_income no more than one unit's
\* ordinary per share above the ceiling.
C2_Phase1FloorGuarantee ==
    /\ Len(phase1_log) <= Len(recommendations)
    /\ \A k \in 1..Len(phase1_log) :
           LET e   == phase1_log[k]
               rec == recommendations[k]
           IN  /\ rec.row = e.row
               /\ rec.units_to_sell = e.units_to_sell
               /\ e.room > 0
               /\ e.units_to_sell
                      = Min(rsu_data[e.row].number_of_units,
                            e.room \div rec.ordinary_per_share)
               /\ e.units_to_sell <= rsu_data[e.row].number_of_units
               /\ e.running_income - target_bracket_limit
                      <= rec.ordinary_per_share
    /\ (pc \in {"phase1", "offset"} /\ Len(phase1_log) >= 1) =>
           running_income = phase1_log[Len(phase1_log)].running_income

\* Two selections in one run, one of them taking only part of its grant
\* because the floor binds, with room left below the ceiling.
C2_Witness ==
    /\ Len(phase1_log) >= 2
    /\ \E k \in 1..Len(phase1_log) :
           /\ phase1_log[k].units_to_sell
                  < rsu_data[phase1_log[k].row].number_of_units
           /\ phase1_log[k].running_income < target_bracket_limit

\* C3: for a non-empty plan, current income plus the ordinary totals of all
\* recommendations (both phases) is at most the target ceiling.
C3_PlanUnderCeiling ==
    (pc = "done" /\ final_results # <<>>) =>
        current_income + SumOrdTotal(final_results) <= target_bracket_limit

\* A plan with recommendations of both phases that fills the room exactly.
C3_Witness ==
    /\ pc = "done"
    /\ Len(phase1_log) >= 1
    /\ Len(final_results) > Len(phase1_log)
    /\ current_income + SumOrdTotal(final_results) = target_bracket_limit

\* C4: once phase 2 is over, each loss grant sold has 0 < units <= its unit
\* count, the realized loss exceeds total_cap_gain_to_offset by strictly
\* less than the loss per share of the last loss grant sold, and no loss
\* units are sold when total_cap_gain_to_offset is 0.
C4_Phase2CeilGuarantee ==
    Phase2Over =>
        /\ total_cap_gain_to_offset = sum_cap_gain(Phase1Recs)
        /\ running_loss_sold = RealizedLoss(Phase2Recs)
        /\ \A k \in 1..Len(Phase2Recs) :
               /\ Phase2Recs[k].capital_per_share < 0
               /\ 0 < Phase2Recs[k].units_to_sell
               /\ Phase2Recs[k].units_to_sell
                      <= rsu_data[Phase2Recs[k].row].number_of_units
        /\ (Phase2Recs # <<>> =>
               running_loss_sold - total_cap_gain_to_offset
                   < Abs(Phase2Recs[Len(Phase2Recs)].capital_per_share))
        /\ (total_cap_gain_to_offset = 0 => Phase2Recs = <<>>)

\* Two loss grants sold; the second covers the rest exactly, the realized
\* loss equals the target.
C4_Witness ==
    /\ pc = "done"
    /\ Len(Phase2Recs) = 2
    /\ total_cap_gain_to_offset > 0
    /\ running_loss_sold = total_cap_gain_to_offset
    /\ Phase2Recs[2].units_to_sell < Phase2Recs[2].number_of_units

\* The ordinary totals of the recommendations before position k.
RECURSIVE OrdBefore(_, _)
OrdBefore(recs, k) ==
    IF k <= 1 THEN 0
    ELSE recs[k - 1].ordinary_per_share * recs[k - 1].units_to_sell
             + OrdBefore(recs, k - 1)

C9_Scenario ==
    /\ Len(rsu_data) = 1
    /\ rsu_data[1].section_102 = "Capital Gains Route"
    /\ rsu_data[1].number_of_units = 100
    /\ rsu_data[1].grant_date = Date(2022, 1, 1)
    /\ market[1] = QuotesGain
    /\ current_income = 100000
    /\ target_bracket_limit = 269280

\* C9: in output order, each row has income tax = calc_progressive_tax(
\* current income + ordinary totals of the earlier rows, own ordinary
\* total), capital-gains tax = max(0, capital total) * 0.25 and net
\* proceeds = sale value * units - both taxes; one qualified grant of 100
\* units (ordinary 175, capital 395), income 100000, ceiling 269280 gives
\* 100 units, 17500, 39500, income tax 2450.00 and net proceeds 44675.00.
C9_RowTaxes ==
    pc = "done" =>
        /\ Len(final_results) = Len(recommendations)
        /\ \A k \in 1..Len(final_results) :
               LET rec == recommendations[k]
                   row == final_results[k]
               IN  /\ row.units = rec.units_to_sell
                   /\ row.ord_total = rec.ordinary_per_share * rec.units_to_sell
                   /\ row.cap_total = rec.capital_per_share * rec.units_to_sell
                   /\ row.income_tax =
                          calc_progressive_tax(
                              current_income + OrdBefore(recommendations, k),
                              row.ord_total)
                   /\ row.cgt = Max(0, row.cap_total) * 25
                   /\ row.net_proceeds =
                          rec.sale_price_nis * rec.units_to_sell * 100
                              - row.income_tax - row.cgt
        /\ (C9_Scenario =>
               /\ Len(final_results) = 1
               /\ recommendations[1].ordinary_per_share = 175
               /\ recommendations[1].capital_per_share = 395
               /\ final_results[1].units = 100
               /\ final_results[1].ord_total = 17500
               /\ final_results[1].cap_total = 39500
               /\ final_results[1].income_tax = 245000
               /\ final_results[1].net_proceeds = 4467500)

\* The scenario's run has finished with its one row.
C9_Witness ==
    /\ pc = "done"
    /\ C9_Scenario
    /\ Len(final_results) = 1
    /\ final_results[1].income_tax = 245000
    /\ final_results[1].net_proceeds = 4467500

NoCapitalGainsRoute ==
    \A i \in 1..Len(rsu_data) :
        rsu_data[i].section_102 # "Capital Gains Route"

\* C10: when no grant is on the Capital Gains Route the plan is empty,
\* whatever the sign of each grant's capital component.
C10_NoRouteNoPlan ==
    NoCapitalGainsRoute =>
        /\ recommendations = <<>>
        /\ final_results = <<>>
        /\ phase1_log = <<>>

\* A finished run over grants off the route, one with a gain from vest and
\* one with a loss, returned nothing.
C10_Witness ==
    /\ pc = "done"
    /\ NoCapitalGainsRoute
    /\ \E i \in 1..Len(grants_to_process) :
           grants_to_process[i].capital_per_share > 0
    /\ \E i \in 1..Len(grants_to_process) :
           grants_to_process[i].capital_per_share < 0
    /\ final_results = <<>>

(***************************************************************************)
(* What the inputs say about row i, read off rsu_data and market.          *)
(***************************************************************************)

RowAvailable(i) ==
    /\ Truthy(market[i].sale_price)
    /\ Truthy(market[i].sale_fx)
    /\ Truthy(market[i].grant_price)
    /\ Truthy(market[i].grant_fx)

RowSaleValue(i) == market[i].sale_price[1] * market[i].sale_fx[1]

RowBaseValue(i) == market[i].grant_price[1] * market[i].grant_fx[1]

RowUnderwaterQualified(i) ==
    /\ rsu_data[i].section_102 = "Capital Gains Route"
    /\ RowAvailable(i)
    /\ ~ DateLT(OptToday, AddMonths(rsu_data[i].grant_date, 24))
    /\ RowSaleValue(i) < RowBaseValue(i)

Returned == pc \in {"done", "shown"}

C11_Scenario ==
    /\ Len(rsu_data) = 1
    /\ rsu_data[1].number_of_units = 100
    /\ RowUnderwaterQualified(1)
    /\ RowSaleValue(1) = 152
    /\ current_income = 100000
    /\ target_bracket_limit = 269280

\* C11 as stated: an underwater qualified grant reached with income room is
\* recommended with min(unit count, floor(room / sale value)) units and
\* income tax = calc_progressive_tax(current_income, sale value * units).
C11_Original ==
    Returned =>
        \A v \in 1..Len(phase1_visits) :
            LET i     == phase1_visits[v].row
                room  == phase1_visits[v].room
                units == Min(rsu_data[i].number_of_units,
                             room \div RowSaleValue(i))
            IN  (RowUnderwaterQualified(i) /\ room > 0) =>
                    \E k \in 1..Len(final_results) :
                        /\ final_results[k].row = i
                        /\ final_results[k].units = units
                        /\ final_results[k].cap_total = 0
                        /\ final_results[k].cgt = 0
                        /\ final_results[k].income_tax =
                               calc_progressive_tax(current_income,
                                                    RowSaleValue(i) * units)
                        /\ final_results[k].net_proceeds =
                               RowSaleValue(i) * units * 100
                                   - final_results[k].income_tax

\* C11 (amended): an underwater qualified grant is a phase-1 candidate; when
\* the room left at its turn holds at least one unit it is recommended with
\* min(unit count, floor(room / sale value)) units, capital total 0,
\* capital-gains tax 0, income tax = calc_progressive_tax(running income at
\* its turn, sale value * units) and net proceeds = sale value * units -
\* income tax; alone, with 100 units, sale value 152, income 100000 and
\* ceiling 269280: ordinary total 15200, income tax 2128.00, net 13072.00.
C11_UnderwaterSelected ==
    /\ pc \notin {"start", "resolve", "partition"} =>
           \A i \in 1..Len(rsu_data) :
               RowUnderwaterQualified(i) =>
                   \E c \in 1..Len(s102_gains) : s102_gains[c].row = i
    /\ Returned =>
           \A v \in 1..Len(phase1_visits) :
               LET i     == phase1_visits[v].row
                   room  == phase1_visits[v].room
                   units == Min(rsu_data[i].number_of_units,
                                room \div RowSaleValue(i))
               IN  (RowUnderwaterQualified(i) /\ room > 0 /\ units >= 1) =>
                       \E k \in 1..Len(final_results) :
                           /\ final_results[k].row = i
                           /\ final_results[k].units = units
                           /\ final_results[k].ord_total
                                  = RowSaleValue(i) * units
                           /\ final_results[k].cap_total = 0
                           /\ final_results[k].cgt = 0
                           /\ final_results[k].income_tax =
                                  calc_progressive_tax(
                                      target_bracket_limit - room,
                                      RowSaleValue(i) * units)
                           /\ final_results[k].net_proceeds =
                                  RowSaleValue(i) * units * 100
                                      - final_results[k].income_tax
    /\ (Returned /\ C11_Scenario) =>
           /\ Len(final_results) = 1
           /\ final_results[1].units = 100
           /\ final_results[1].ord_total = 15200
           /\ final_results[1].cap_total = 0
           /\ final_results[1].income_tax = 212800
           /\ final_results[1].net_proceeds = 1307200

\* An underwater qualified grant sold after an earlier phase-1 selection
\* of the same run, so with less room than ceiling - current income.
C11_Witness ==
    /\ pc = "done"
    /\ \E v \in 2..Len(phase1_visits) :
           /\ RowUnderwaterQualified(phase1_visits[v].row)
           /\ phase1_visits[v].outcome = "sold"
           /\ phase1_visits[v - 1].outcome = "sold"
           /\ phase1_visits[v].room < target_bracket_limit - current_income

(***************************************************************************)
(* SpecMissing: optimize_rsu_sales over rows of which some lack one of the *)
(* four market values.                                                     *)
(***************************************************************************)

MarketFields == {"sale_price", "sale_fx", "grant_price", "grant_fx"}

Missing(q, f) == [q EXCEPT ![f] = NoQuote]

MissingPool ==
    {<<Row("Capital Gains Route", 100, Date(2022, 1, 1)), q>> :
        q \in {QuotesGain} \cup {Missing(QuotesGain, f) : f \in MarketFields}}
    \cup {<<Row("Ordinary Income Route", 3, Date(2022, 1, 1)), q>> :
        q \in {QuotesUnder} \cup {Missing(QuotesUnder, f) : f \in MarketFields}}

InitMissing ==
    /\ pc = "start"
    /\ \E n \in 0..MaxGrants :
           \E picks \in [1..n -> MissingPool] :
               /\ rsu_data = [i \in 1..n |-> WithRow(picks[i], i)]
               /\ market = [i \in 1..n |-> picks[i][2]]
    /\ current_income \in Incomes
    /\ target_bracket_limit \in Ceilings
    /\ income_room = 0
    /\ grants_to_process = <<>>
    /\ s102_gains = <<>>
    /\ cap_losses = <<>>
    /\ recommendations = <<>>
    /\ running_income = 0
    /\ total_cap_gain_to_offset = 0
    /\ running_loss_sold = 0
    /\ final_results = <<>>
    /\ running_income_for_tax = 0
    /\ idx = 0
    /\ phase1_log = <<>>
    /\ phase1_visits = <<>>
    /\ phase2_visits = <<>>
    /\ summary = <<>>
    /\ run_no = 1
    /\ first_run = <<>>
    /\ TaxIdle
    /\ CompIdle

SpecMissing == InitMissing /\ [][Next]_vars

\* The rows get_tax_components resolves: the four values are available,
\* and off the Capital Gains Route the vesting-date values too.
RowResolves(i) ==
    /\ RowAvailable(i)
    /\ (rsu_data[i].section_102 # "Capital Gains Route" =>
            Truthy(market[i].vest_price) /\ Truthy(market[i].vest_fx))

RECURSIVE ResolvingRows(_)
ResolvingRows(n) ==
    IF n = 0 THEN <<>>
    ELSE IF RowResolves(n) THEN Append(ResolvingRows(n - 1), n)
         ELSE ResolvingRows(n - 1)

\* C12: a grant with one of its four market values unavailable is dropped
\* by the resolve loop and never recommended; every other grant is still
\* processed, and the run goes on to return its plan.
C12_MissingQuotesSkipped ==
    /\ \A k \in 1..Len(grants_to_process) :
           RowAvailable(grants_to_process[k].row)
    /\ \A k \in 1..Len(recommendations) :
           RowAvailable(recommendations[k].row)
    /\ \A k \in 1..Len(final_results) : RowAvailable(final_results[k].row)
    /\ pc \notin {"start", "resolve"} =>
           [k \in 1..Len(grants_to_process) |-> grants_to_process[k].row]
               = ResolvingRows(Len(rsu_data))
    /\ pc # "shown" => ENABLED Next

\* A returned plan of two rows for three grants, the one between them
\* lacking its grant-date FX rate.
C12_Witness ==
    /\ pc = "done"
    /\ Len(rsu_data) = 3
    /\ market[2].grant_fx = NoQuote
    /\ Len(final_results) = 2
    /\ final_results[1].row = 1
    /\ final_results[2].row = 3

(***************************************************************************)
(* More claims about optimize_rsu_sales (Spec)                             *)
(***************************************************************************)

NoIncomeRoom == target_bracket_limit <= current_income

\* C13: when the target ceiling is at or below the current income, the
\* room is clamped to 0, phase 1 selects nothing, and the run goes on to
\* return a result.
C13_NoRoomNoPhase1 ==
    NoIncomeRoom =>
        /\ (pc # "start" => income_room = 0)
        /\ phase1_log = <<>>
        /\ \A v \in 1..Len(phase1_visits) : phase1_visits[v].outcome # "sold"
        /\ \A k \in 1..Len(recommendations) :
               ~ is_s102_gain(recommendations[k])
        /\ (Returned => Len(final_results) = Len(recommendations))
        /\ (pc # "shown" => ENABLED Next)

\* A returned run with the ceiling strictly below the income and
\* candidates for phase 1, whose loop stopped at its first pass.
C13_Witness ==
    /\ pc = "done"
    /\ target_bracket_limit < current_income
    /\ Len(s102_gains) >= 2
    /\ Len(phase1_visits) = 1
    /\ phase1_visits[1].outcome = "break"
    /\ final_results = <<>>

(***************************************************************************)
(* SpecRerun: optimize_rsu_sales called a second time on the same rows,    *)
(* quotes, income and ceiling.  The second call starts from the values     *)
(* the first one left in every variable of the function, so that it        *)
(* returns the same plan only if it sets each of them before reading it.   *)
(***************************************************************************)

RerunPool ==
    {<<Row("Capital Gains Route", 3, Date(2022, 1, 1)), QuotesGain>>,
     <<Row("Capital Gains Route", 100, Date(2022, 1, 1)), QuotesUnder>>,
     <<Row("Capital Gains Route", 3, Date(2022, 1, 1)), QuotesLowGain>>,
     <<Row("Capital Gains Route", 100, Date(2024, 1, 1)), QuotesGain>>,
     <<Row("Ordinary Income Route", 3, Date(2022, 1, 1)), QuotesUnder>>,
     <<Row("Ordinary Income Route", 100, Date(2022, 1, 1)), QuotesLowGain>>}

InitRerun ==
    /\ pc = "start"
    /\ \E n \in 0..MaxGrants :
           \E picks \in [1..n -> RerunPool] :
               /\ rsu_data = [i \in 1..n |-> WithRow(picks[i], i)]
               /\ market = [i \in 1..n |-> picks[i][2]]
    /\ current_income \in Incomes
    /\ target_bracket_limit \in Ceilings
    /\ income_room = 0
    /\ grants_to_process = <<>>
    /\ s102_gains = <<>>
    /\ cap_losses = <<>>
    /\ recommendations = <<>>
    /\ running_income = 0
    /\ total_cap_gain_to_offset = 0
    /\ running_loss_sold = 0
    /\ final_results = <<>>
    /\ running_income_for_tax = 0
    /\ idx = 0
    /\ phase1_log = <<>>
    /\ phase1_visits = <<>>
    /\ phase2_visits = <<>>
    /\ summary = <<>>
    /\ run_no = 1
    /\ first_run = <<>>
    /\ TaxIdle
    /\ CompIdle

\* The caller calls optimize_rsu_sales again with the same arguments.
Rerun ==
    /\ pc = "done"
    /\ run_no = 1
    /\ run_no' = 2
    /\ first_run' = <<[recommendations |-> recommendations,
                       final_results   |-> final_results]>>
    /\ pc' = "start"
    /\ phase1_log' = <<>>
    /\ phase1_visits' = <<>>
    /\ phase2_visits' = <<>>
    /\ UNCHANGED <<rsu_data, market, current_income, target_bracket_limit,
                   income_room, grants_to_process, s102_gains, cap_losses,
                   recommendations, running_income, total_cap_gain_to_offset,
                   running_loss_sold, final_results, running_income_for_tax,
                   idx, summary>>
    /\ UNCHANGED <<taxVars, compVars>>

NextRerun ==
    \/ Begin
    \/ ResolveGrant
    \/ Partition
    \/ Phase1Step
    \/ ComputeOffset
    \/ Phase2Step
    \/ InitResults
    \/ TaxStep
    \/ Rerun

SpecRerun == InitRerun /\ [][NextRerun]_vars

\* C14: a second run on the same grant list, income, ceiling and resolved
\* components returns the same recommendations in the same order, with the
\* same units, taxes and net proceeds.
C14_RerunIdentical ==
    (run_no = 2 /\ pc = "done") =>
        /\ Len(first_run) = 1
        /\ recommendations = first_run[1].recommendations
        /\ final_results = first_run[1].final_results

\* The second run has returned a plan with rows of both phases.
C14_Witness ==
    /\ run_no = 2
    /\ pc = "done"
    /\ Len(phase1_log) >= 1
    /\ Len(final_results) > Len(phase1_log)
    /\ final_results = first_run[1].final_results

(***************************************************************************)
(* More claims about calc_progressive_tax (SpecTax)                        *)
(***************************************************************************)

\* Length of the part of the slice lo..hi inside the bracket a..b.
Overlap(lo, hi, a, b) == Max(0, Min(hi, b) - Max(lo, a))

BracketFloor(i) ==
    IF i = 1 THEN 0 ELSE ISRAELI_TAX_BRACKETS_2025[i - 1][1]

\* Rate times overlap, summed over the brackets from i on.
RECURSIVE SliceTaxFrom(_, _, _)
SliceTaxFrom(lo, hi, i) ==
    IF i > Len(ISRAELI_TAX_BRACKETS_2025) THEN 0
    ELSE ISRAELI_TAX_BRACKETS_2025[i][2]
             * Overlap(lo, hi, BracketFloor(i), ISRAELI_TAX_BRACKETS_2025[i][1])
         + SliceTaxFrom(lo, hi, i + 1)

SliceTax(base, increment) == SliceTaxFrom(base, base + increment, 1)

\* C15: for base >= 0 and increment > 0, calc_progressive_tax(base,
\* increment) is the sum over the brackets of the rate times the length of
\* the overlap of the slice base..base+increment with the bracket, also
\* when the slice spans several brackets.
C15_TaxIsSliceOverlap ==
    tax_pc = "done" =>
        /\ (tax_args.base >= 0 /\ tax_args.x > 0) =>
               tax_out.first = SliceTax(tax_args.base, tax_args.x)
        /\ (tax_args.base + tax_args.x >= 0 /\ tax_args.y > 0) =>
               tax_out.second = SliceTax(tax_args.base + tax_args.x, tax_args.y)
        /\ (tax_args.base >= 0 /\ tax_args.x + tax_args.y > 0) =>
               tax_out.whole = SliceTax(tax_args.base, tax_args.x + tax_args.y)

\* The slice 50000..160000 lies in three brackets: 34120 at 10%, 36600 at
\* 14% and 39280 at 20%.
C15_Witness ==
    /\ tax_pc = "done"
    /\ tax_args.base = 50000
    /\ tax_args.x = 110000
    /\ tax_out.first = 34120 * 10 + 36600 * 14 + 39280 * 20

(***************************************************************************)
(* Efficiency and phase-1 eligibility (Spec)                               *)
(***************************************************************************)

EfficiencyAsComputed ==
    \A k \in 1..Len(grants_to_process) :
        LET g == grants_to_process[k]
        IN  /\ (g.capital_per_share > 0 /\ g.ordinary_per_share > 0) =>
                   /\ g.efficiency[2] > 0
                   /\ g.efficiency[1] * g.ordinary_per_share
                          = g.capital_per_share * g.efficiency[2]
            /\ (g.capital_per_share > 0 /\ g.ordinary_per_share <= 0) =>
                   g.efficiency = <<1, 0>>

\* C16 as stated: the efficiency is capital / ordinary when both are
\* positive and +infinity when capital is positive and ordinary is not, and
\* a grant in neither case is never recommended by phase 1.
C16_Original ==
    /\ EfficiencyAsComputed
    /\ \A k \in 1..Len(phase1_log) :
           recommendations[k].capital_per_share > 0

\* C16 (amended): the efficiency is capital / ordinary when both are
\* positive, +infinity when capital is positive and ordinary is not, and 0
\* otherwise; phase 1 takes the §102 grants with capital >= 0 and ordinary
\* > 0 whatever their efficiency, so a grant with capital 0 and ordinary
\* > 0 is eligible, and a grant with ordinary <= 0 (infinite efficiency) or
\* with negative capital is never recommended by phase 1.
C16_EfficiencyAndEligibility ==
    /\ EfficiencyAsComputed
    /\ \A k \in 1..Len(grants_to_process) :
           grants_to_process[k].capital_per_share <= 0 =>
               grants_to_process[k].efficiency = <<0, 1>>
    /\ \A k \in 1..Len(phase1_log) :
           /\ rsu_data[recommendations[k].row].section_102
                  = "Capital Gains Route"
           /\ recommendations[k].capital_per_share >= 0
           /\ recommendations[k].ordinary_per_share > 0
           /\ recommendations[k].efficiency # <<1, 0>>
    /\ pc \notin {"start", "resolve", "partition"} =>
           \A k \in 1..Len(grants_to_process) :
               LET g == grants_to_process[k]
               IN  (/\ rsu_data[g.row].section_102 = "Capital Gains Route"
                    /\ g.capital_per_share = 0
                    /\ g.ordinary_per_share > 0) =>
                       \E c \in 1..Len(s102_gains) : s102_gains[c].row = g.row

\* Phase 1 has sold a grant of positive efficiency and then one of
\* efficiency 0, and has left out a grant of infinite efficiency.
C16_Witness ==
    /\ Returned
    /\ Len(phase1_log) = 2
    /\ recommendations[1].capital_per_share > 0
    /\ recommendations[2].capital_per_share = 0
    /\ recommendations[2].efficiency = <<0, 1>>
    /\ \E k \in 1..Len(grants_to_process) :
           grants_to_process[k].efficiency = <<1, 0>>

(***************************************************************************)
(* Order of the plan (Spec)                                                *)
(***************************************************************************)

\* The resolved grant of row i.
GrantOfRow(i) ==
    grants_to_process[CHOOSE k \in 1..Len(grants_to_process) :
                          grants_to_process[k].row = i]

\* capital / ordinary of a is >= that of b; both have ordinary > 0.
RatioGE(a, b) ==
    a.capital_per_share * b.ordinary_per_share
        >= b.capital_per_share * a.ordinary_per_share

RECURSIVE SoldRows(_)
SoldRows(visits) ==
    IF visits = <<>> THEN <<>>
    ELSE (IF Head(visits).outcome = "sold" THEN <<Head(visits).row>> ELSE <<>>)
             \o SoldRows(Tail(visits))

Phase1Over == pc \in {"offset", "phase2", "results", "tax", "done", "shown"}

\* C17: phase 1 visits its candidates by non-increasing efficiency, equal
\* efficiencies in input order; a candidate of which no unit fits is
\* skipped and the later ones are still visited; phase 2 visits the loss
\* grants in input order, after phase 1 is over; the plan lists the phase-1
\* recommendations, then the phase-2 ones, each in the order of the visits.
C17_PlanOrder ==
    /\ \A v \in 1..Len(phase1_visits) :
           /\ v <= Len(s102_gains)
           /\ phase1_visits[v].row = s102_gains[v].row
    /\ \A v, w \in 1..Len(phase1_visits) :
           v < w =>
               LET a == GrantOfRow(phase1_visits[v].row)
                   b == GrantOfRow(phase1_visits[w].row)
               IN  /\ RatioGE(a, b)
                   /\ RatioGE(b, a) => a.row < b.row
    /\ \A v \in 1..Len(phase1_visits) :
           /\ phase1_visits[v].outcome = "break" =>
                  (phase1_visits[v].room <= 0 /\ v = Len(phase1_visits))
           /\ phase1_visits[v].outcome = "skip" =>
                  /\ 0 < phase1_visits[v].room
                  /\ phase1_visits[v].room
                         < GrantOfRow(phase1_visits[v].row).ordinary_per_share
    /\ Phase1Over =>
           \/ Len(phase1_visits) = Len(s102_gains)
           \/ /\ Len(phase1_visits) >= 1
              /\ phase1_visits[Len(phase1_visits)].outcome = "break"
    /\ phase2_visits # <<>> => (Phase1Over /\ pc # "offset")
    /\ \A v \in 1..Len(phase2_visits) :
           /\ v <= Len(cap_losses)
           /\ phase2_visits[v].row = cap_losses[v].row
    /\ \A v, w \in 1..Len(phase2_visits) :
           v < w => phase2_visits[v].row < phase2_visits[w].row
    /\ [k \in 1..Len(recommendations) |-> recommendations[k].row]
           = SoldRows(phase1_visits) \o SoldRows(phase2_visits)
    /\ Returned =>
           [k \in 1..Len(final_results) |-> final_results[k].row]
               = SoldRows(phase1_visits) \o SoldRows(phase2_visits)

\* Three candidates given in increasing order of efficiency: the third row
\* is sold first, the second is skipped because no unit of it fits in the
\* room left, and the first is still sold after it.
C17_Witness ==
    /\ Returned
    /\ Len(phase1_visits) = 3
    /\ phase1_visits[1].row = 3 /\ phase1_visits[1].outcome = "sold"
    /\ phase1_visits[2].row = 2 /\ phase1_visits[2].outcome = "skip"
    /\ phase1_visits[3].row = 1 /\ phase1_visits[3].outcome = "sold"
    /\ final_results[1].row = 3
    /\ final_results[2].row = 1

(***************************************************************************)
(* Coverage of the offset target (Spec)                                    *)
(***************************************************************************)

\* The grant of row i is recommended with all of its units.
SoldInFull(g) ==
    \E k \in 1..Len(recommendations) :
        /\ recommendations[k].row = g.row
        /\ recommendations[k].units_to_sell = g.number_of_units

LossGrants ==
    {k \in 1..Len(grants_to_process) :
         grants_to_process[k].capital_per_share < 0}

\* C18: once phase 2 is over, with total_cap_gain_to_offset the sum of
\* capital_per_share * units_to_sell over the phase-1 recommendations,
\* either the realized loss has reached that target or every grant with a
\* negative capital component is recommended with its full unit count.
C18_OffsetCovered ==
    (Phase2Over \/ pc = "shown") =>
        /\ total_cap_gain_to_offset = sum_cap_gain(Phase1Recs)
        /\ running_loss_sold = RealizedLoss(Phase2Recs)
        /\ \/ running_loss_sold >= total_cap_gain_to_offset
           \/ \A k \in LossGrants : SoldInFull(grants_to_process[k])

\* The pool of losses is exhausted short of the target: two loss grants,
\* both sold in full, and the realized loss still below the gain.
C18_Witness ==
    /\ Returned
    /\ Cardinality(LossGrants) = 2
    /\ \A k \in LossGrants : SoldInFull(grants_to_process[k])
    /\ 0 < running_loss_sold
    /\ running_loss_sold < total_cap_gain_to_offset

(***************************************************************************)
(* Consistency of the financial summary (Spec)                              *)
(***************************************************************************)

\* C19: in every summary shown, Net Proceeds (the sum of the rows' net
\* proceeds) equals Gross Proceeds minus Total Tax Paid, that is, the
\* capital-gains tax of the portfolio equals the sum of the rows'
\* capital-gains taxes.  It fails for a plan with harvested losses: each
\* row is charged on max(0, cap_total) while the summary charges
\* max(0, sum of cap_total).
C19_SummaryConsistent ==
    (pc = "shown" /\ summary # <<>>) =>
        /\ summary[1].final_net
               = summary[1].gross_proceeds - summary[1].final_total_tax
        /\ summary[1].final_cgt = SumField(final_results, "cgt")

====
